---- MODULE Spec2Model ----
(***************************************************************************)
(* Model of AI-Research-Analyst: the research service                      *)
(* generateResearchResponse (src/services/geminiService.ts), the file      *)
(* intake processFiles (src/utils.ts) and the conversation component       *)
(* ResearchInterface (src/components/ResearchInterface.tsx).               *)
(*                                                                         *)
(* A text is a sequence of tokens.  Each token stands for a fixed piece of *)
(* the character string, so that the fence regex, String.replace,          *)
(* String.trim and JSON.parse can be computed on it the way the code       *)
(* computes them on characters.                                            *)
(***************************************************************************)
EXTENDS Integers, Sequences, FiniteSets, TLC

VARIABLES
  pc,        \* position of the latest call of generateResearchResponse
  response,  \* what ai.models.generateContent resolved with
  result,    \* what the call resolved with
  thrown,    \* what the call rejected with
  args,      \* the caller-owned arguments of the call: currentPrompt, history, attachments, mode
  request,   \* the argument of ai.models.generateContent
  apiError,  \* what ai.models.generateContent rejected with
  ui,        \* React state of ResearchInterface: messages, input, isLoading, attachments, modelMode
  rendered,  \* the state values the handlers of the last render closed over
  pending,   \* the handleSubmit invocations suspended at the await of line 100
  uploads,   \* the processFiles invocations that have not returned yet
  handled    \* what the last handleSubmit invocation did at line 77

callVars == <<pc, response, result, thrown, args, request, apiError>>
uiVars   == <<ui, rendered, pending, uploads, handled>>
vars     == <<pc, response, result, thrown, args, request, apiError,
              ui, rendered, pending, uploads, handled>>

(***************************************************************************)
(* Tokens                                                                  *)
(***************************************************************************)
F   == "FENCE"    \* three backticks, the fence of a code block
J   == "json"     \* the letters json
JU  == "JSON"     \* the letters JSON
JS  == "js"       \* the letters js
W   == "SP"       \* one whitespace character (in \s, JSON whitespace, trimmed by trim())
X   == "c"        \* a letter of prose
N5  == "5"        \* a digit
LB  == "["
RB  == "]"
CM  == ","
NUL == "null"
Q   == "QUOTE"
O1  == "{claim,sourceType,sourceName,sourceReference}"  \* an object literal with the four Evidence fields
O2  == "{claim}"                                        \* an object literal lacking Evidence fields
PH  == "No response generated."

(***************************************************************************)
(* Bounds of the explored inputs                                           *)
(***************************************************************************)
MaxItems  == 2   \* longest JSON list rendered into a block
MaxShort  == 4   \* longest text of the exhaustive family
MaxChunks == 2   \* longest groundingChunks list
MaxAttachments == 2   \* longest attachment list of a call
MaxHistory     == 2   \* longest history of a call of the request study
MaxBatch       == 3   \* longest FileList given to processFiles
MaxUploads     == 1   \* most processFiles invocations running at once
MaxStaged      == 1   \* most attachments staged or being encoded
MaxSubmits     == 2   \* most admitted submissions of a conversation

(***************************************************************************)
(* Sequence helpers                                                        *)
(***************************************************************************)
SetMin(S) == CHOOSE x \in S : \A y \in S : x <= y
SetMax(S) == CHOOSE x \in S : \A y \in S : x >= y

RECURSIVE Flatten(_)
Flatten(ss) == IF ss = <<>> THEN <<>> ELSE Head(ss) \o Flatten(Tail(ss))

\* the number of whitespace tokens of s from position p on
RECURSIVE WsRun(_, _)
WsRun(s, p) == IF p <= Len(s) /\ s[p] = W THEN 1 + WsRun(s, p + 1) ELSE 0

\* the number of whitespace tokens of s before position p, backwards
RECURSIVE WsRunBack(_, _)
WsRunBack(s, p) == IF p >= 1 /\ s[p] = W THEN 1 + WsRunBack(s, p - 1) ELSE 0

(***************************************************************************)
(* String.prototype.trim: leading and trailing whitespace removed          *)
(***************************************************************************)
trim(s) ==
  LET a == WsRun(s, 1)
      b == WsRunBack(s, Len(s))
  IN  IF a = Len(s) THEN <<>> ELSE SubSeq(s, a + 1, Len(s) - b)

(***************************************************************************)
(* jsonBlockRegex: FENCE json \s* ([\s\S]*?) \s* FENCE, no flags.          *)
(* AttemptAt is one attempt of the backtracking matcher at index i: the    *)
(* first \s* is greedy (most whitespace first), the group is lazy          *)
(* (shortest first), the second \s* is greedy.                             *)
(***************************************************************************)
NoMatch == [found |-> FALSE, index |-> 0, whole |-> <<>>, group |-> <<>>]

\* faulty variant of LabelAt: the label is matched without regard to case (flag i)
LabelAt_anyCase(s, i) ==
  i + 1 <= Len(s) /\ s[i] = F /\ s[i + 1] \in {J, JU}

\* the literal prefix of the regex at index i: the fence, then the letters json
LabelAt(s, i) ==
  i + 1 <= Len(s) /\ s[i] = F /\ s[i + 1] = J

\* the second \s* and the closing fence at position q: the whitespace taken
\* (greedy: the most that still lets the fence match), or -1
TailAt(s, q) ==
  LET gs == {g \in 0..WsRun(s, q) : q + g <= Len(s) /\ s[q + g] = F}
  IN  IF gs = {} THEN -1 ELSE SetMax(gs)

\* the lazy group after a first \s* of g1 characters: its shortest length
\* that lets the rest match, or -1
GroupAt(s, p, g1) ==
  LET cs == {c \in 0..(Len(s) - (p + g1)) : TailAt(s, p + g1 + c) >= 0}
  IN  IF cs = {} THEN -1 ELSE SetMin(cs)

AttemptAt(s, i) ==
  IF ~LabelAt(s, i) THEN NoMatch
  ELSE
    LET p   == i + 2
        g1s == {g \in 0..WsRun(s, p) : GroupAt(s, p, g) >= 0}
    IN  IF g1s = {} THEN NoMatch
        ELSE
          LET g1 == SetMax(g1s)
              c  == GroupAt(s, p, g1)
              g2 == TailAt(s, p + g1 + c)
          IN  [found |-> TRUE,
               index |-> i,
               whole |-> SubSeq(s, i, p + g1 + c + g2),
               group |-> SubSeq(s, p + g1, p + g1 + c - 1)]

\* faulty variant of match: the last block of the text is taken, not the first
match_last(s) ==
  LET starts == {i \in 1..Len(s) : AttemptAt(s, i).found}
  IN  IF starts = {} THEN NoMatch ELSE AttemptAt(s, SetMax(starts))

\* fullText.match(jsonBlockRegex): the attempt at the leftmost index that succeeds
match(s) ==
  LET starts == {i \in 1..Len(s) : AttemptAt(s, i).found}
  IN  IF starts = {} THEN NoMatch ELSE AttemptAt(s, SetMin(starts))

(***************************************************************************)
(* String.prototype.replace(pattern: string, ''): the first occurrence of  *)
(* the pattern removed                                                     *)
(***************************************************************************)
OccursAt(s, sub, k) ==
  k >= 1 /\ k + Len(sub) - 1 <= Len(s) /\ SubSeq(s, k, k + Len(sub) - 1) = sub

\* faulty variant of replace: the pattern is not found, the text stays whole
replace_nothing(s, sub) == s

replace(s, sub) ==
  LET at == {k \in 1..(Len(s) + 1) : OccursAt(s, sub, k)}
  IN  IF at = {} THEN s
      ELSE LET k == SetMin(at)
           IN  SubSeq(s, 1, k - 1) \o SubSeq(s, k + Len(sub), Len(s))

(***************************************************************************)
(* JSON.parse on tokens.  A value is [kind, atom, items]: a number (a run  *)
(* of digits), null, a string (the tokens between two quotes), an object   *)
(* (one object literal token) or a list of values.  A SyntaxError is       *)
(* ok = FALSE.                                                             *)
(***************************************************************************)
JNumber(ds)  == [kind |-> "number", atom |-> ds,     items |-> <<>>]
JNull        == [kind |-> "null",   atom |-> <<>>,   items |-> <<>>]
JString(cs)  == [kind |-> "string", atom |-> cs,     items |-> <<>>]
JObject(o)   == [kind |-> "object", atom |-> <<o>>,  items |-> <<>>]
JList(vs)    == [kind |-> "list",   atom |-> <<>>,   items |-> vs]

SyntaxError == [ok |-> FALSE, val |-> JNull, next |-> 0]

RECURSIVE DigitRun(_, _)
DigitRun(s, p) == IF p <= Len(s) /\ s[p] = N5 THEN 1 + DigitRun(s, p + 1) ELSE 0

\* the position of the next quote of s from p on, 0 when there is none
RECURSIVE NextQuote(_, _)
NextQuote(s, p) ==
  IF p > Len(s) THEN 0 ELSE IF s[p] = Q THEN p ELSE NextQuote(s, p + 1)

RECURSIVE ParseValue(_, _)
RECURSIVE ParseElements(_, _, _)

\* value := ws (number | null | string | object | list), from position p0
ParseValue(s, p0) ==
  LET p == p0 + WsRun(s, p0)
  IN  IF p > Len(s) THEN SyntaxError
      ELSE IF s[p] = N5 THEN
        LET n == DigitRun(s, p)
        IN  [ok |-> TRUE, val |-> JNumber(SubSeq(s, p, p + n - 1)), next |-> p + n]
      ELSE IF s[p] = NUL THEN [ok |-> TRUE, val |-> JNull, next |-> p + 1]
      ELSE IF s[p] \in {O1, O2} THEN [ok |-> TRUE, val |-> JObject(s[p]), next |-> p + 1]
      ELSE IF s[p] = Q THEN
        LET q == NextQuote(s, p + 1)
        IN  IF q = 0 THEN SyntaxError
            ELSE [ok |-> TRUE, val |-> JString(SubSeq(s, p + 1, q - 1)), next |-> q + 1]
      ELSE IF s[p] = LB THEN
        LET p1 == (p + 1) + WsRun(s, p + 1)
        IN  IF p1 <= Len(s) /\ s[p1] = RB
            THEN [ok |-> TRUE, val |-> JList(<<>>), next |-> p1 + 1]
            ELSE ParseElements(s, p + 1, <<>>)
      ELSE SyntaxError

\* elements := value ws (, value ws)* ], the values before p being acc
ParseElements(s, p, acc) ==
  LET r == ParseValue(s, p)
  IN  IF ~r.ok THEN SyntaxError
      ELSE
        LET p1 == r.next + WsRun(s, r.next)
        IN  IF p1 > Len(s) THEN SyntaxError
            ELSE IF s[p1] = CM THEN ParseElements(s, p1 + 1, Append(acc, r.val))
            ELSE IF s[p1] = RB
              THEN [ok |-> TRUE, val |-> JList(Append(acc, r.val)), next |-> p1 + 1]
            ELSE SyntaxError

\* JSON.parse(text): one value, whitespace around it, nothing after it
JSONparse(s) ==
  LET r == ParseValue(s, 1)
  IN  IF r.ok /\ r.next + WsRun(s, r.next) > Len(s)
      THEN [ok |-> TRUE, val |-> r.val]
      ELSE [ok |-> FALSE, val |-> JNull]

\* Array.isArray(parsed)
isArray(v) == v.kind = "list"

(***************************************************************************)
(* generateResearchResponse, after the await: lines 121-150                *)
(***************************************************************************)
\* let fullText = response.text || "No response generated."
\* faulty variant of fullTextOf: the text of the response is taken as it is
fullTextOf_raw(resp) == IF resp.hasText THEN resp.text ELSE <<>>

fullTextOf(resp) ==
  IF resp.hasText /\ resp.text # <<>> THEN resp.text ELSE <<PH>>

\* cleanText = fullText.replace(match[0], '').trim()
\* faulty variants of stripBlock: the trim is left out; the replace is left out
stripBlock_noTrim(fullText, m) == replace(fullText, m.whole)

stripBlock_noReplace(fullText, m) == trim(fullText)

stripBlock(fullText, m) == trim(replace(fullText, m.whole))

\* the body of the inner try: JSON.parse throws, or the block is taken when
\* the parsed value is an array
\* faulty variant of tryParse: the Array.isArray test is left out
tryParse_anyValue(fullText, m) ==
  LET parsed == JSONparse(m.group)
  IN  IF ~parsed.ok
      THEN [threw |-> TRUE, evidence |-> <<>>, cleanText |-> fullText]
      ELSE [threw |-> FALSE,
            evidence |-> IF isArray(parsed.val) THEN parsed.val.items ELSE <<>>,
            cleanText |-> stripBlock(fullText, m)]

\* faulty variant of tryParse: the elements that are not objects are dropped
tryParse_dropNonObjects(fullText, m) ==
  LET parsed == JSONparse(m.group)
  IN  IF ~parsed.ok
      THEN [threw |-> TRUE, evidence |-> <<>>, cleanText |-> fullText]
      ELSE IF isArray(parsed.val)
        THEN [threw |-> FALSE,
              evidence |-> SelectSeq(parsed.val.items, LAMBDA v : v.kind = "object"),
              cleanText |-> stripBlock(fullText, m)]
        ELSE [threw |-> FALSE, evidence |-> <<>>, cleanText |-> fullText]

tryParse(fullText, m) ==
  LET parsed == JSONparse(m.group)
  IN  IF ~parsed.ok
      THEN [threw |-> TRUE, evidence |-> <<>>, cleanText |-> fullText]
      ELSE IF isArray(parsed.val)
        THEN [threw |-> FALSE, evidence |-> parsed.val.items,
              cleanText |-> stripBlock(fullText, m)]
        ELSE [threw |-> FALSE, evidence |-> <<>>, cleanText |-> fullText]

\* catch (e) { console.warn(...) }: evidence and cleanText keep their initial values
\* faulty variants of catchParse: the error is not caught; the text is trimmed on failure
catchParse_rethrow(r, fullText) == r

catchParse_strip(r, fullText) ==
  IF r.threw
  THEN [threw |-> FALSE, evidence |-> <<>>, cleanText |-> trim(fullText)]
  ELSE r

catchParse(r, fullText) ==
  IF r.threw
  THEN [threw |-> FALSE, evidence |-> <<>>, cleanText |-> fullText]
  ELSE r

\* lines 122-140: evidence and cleanText from fullText
\* faulty variant of parseEvidence: the text is trimmed even when nothing matched
parseEvidence_trimAlways(fullText) ==
  LET m == match(fullText)
  IN  IF m.found /\ m.group # <<>>
      THEN catchParse(tryParse(fullText, m), fullText)
      ELSE [threw |-> FALSE, evidence |-> <<>>, cleanText |-> trim(fullText)]

parseEvidence(fullText) ==
  LET m == match(fullText)
  IN  IF m.found /\ m.group # <<>>
      THEN catchParse(tryParse(fullText, m), fullText)
      ELSE [threw |-> FALSE, evidence |-> <<>>, cleanText |-> fullText]

\* lines 143-148: candidates[0].groundingMetadata.groundingChunks, or []
\* faulty variant of groundingChunksOf: entries without web are filtered out here
groundingChunksOf_webOnly(resp) ==
  LET cs == resp.candidates
  IN  IF cs.present /\ Len(cs.list) >= 1
         /\ cs.list[1].hasMetadata /\ cs.list[1].hasChunks
      THEN SelectSeq(cs.list[1].chunks, LAMBDA c : c.hasWeb)
      ELSE <<>>

groundingChunksOf(resp) ==
  LET cs == resp.candidates
  IN  IF cs.present /\ Len(cs.list) >= 1
         /\ cs.list[1].hasMetadata /\ cs.list[1].hasChunks
      THEN cs.list[1].chunks
      ELSE <<>>

\* lines 121-150: what the call returns for a response, or that it threw
Extract(resp) ==
  LET fullText == fullTextOf(resp)
      pe       == parseEvidence(fullText)
  IN  [threw          |-> pe.threw,
       text           |-> pe.cleanText,
       groundingChunks |-> groundingChunksOf(resp),
       evidence       |-> pe.evidence]

(***************************************************************************)
(* Request assembly (geminiService.ts lines 7-119).  A part is a record    *)
(* with the field text or the field inlineData, as in the source.          *)
(***************************************************************************)
\* line 16: the second rule of the fast instruction
GeneralKnowledgeRule ==
  "GENERAL KNOWLEDGE: for general queries without documents, answer from internal knowledge"

\* line 22: the first critical rule of the web and deep instruction
NoUnsourcedClaimsRule ==
  "NO UNSOURCED CLAIMS: every claim must be backed by a specific source"

\* line 28: the second rule of the output format
EvidenceGraphRule ==
  "EVIDENCE GRAPH: at the very end of your response, you MUST output a JSON block wrapped in a json fence"

\* lines 31-34: the fields each object of the block must have
FieldRule(name) ==
  CASE name = "claim"           -> "each object must have claim: a concise string of the fact being stated"
    [] name = "sourceType"      -> "each object must have sourceType: web or pdf"
    [] name = "sourceName"      -> "each object must have sourceName: the filename or website title"
    [] name = "sourceReference" -> "each object must have sourceReference: the full URL or Page X"

\* lines 7-59: the base paragraph, then either the four rules of the fast
\* mode or the critical rules, the output format with the evidence graph,
\* the example and the tone
\* faulty variant of getSystemInstruction: the fast mode is told to output
\* the block as well
getSystemInstruction_blockAlways(mode) ==
  <<"base">>
  \o (IF mode = "fast"
      THEN <<"MODE: FAST ANALYSIS",
             "PDF ANALYSIS: prioritize the PDFs, cite page numbers where possible",
             GeneralKnowledgeRule>>
      ELSE <<NoUnsourcedClaimsRule,
             "PDF ANALYSIS: you MUST cite the specific page number",
             "WEB SEARCH: use Google Search, cite the specific URL",
             "OUTPUT FORMAT: Markdown with inline citations">>)
  \o <<EvidenceGraphRule,
       "it must be an array of objects",
       FieldRule("claim"), FieldRule("sourceType"),
       FieldRule("sourceName"), FieldRule("sourceReference"),
       "example JSON structure",
       "TONE: professional, objective, executive summary">>

getSystemInstruction(mode) ==
  IF mode = "fast"
  THEN <<"base",
         "MODE: FAST ANALYSIS",
         "PDF ANALYSIS: prioritize the PDFs, cite page numbers where possible",
         GeneralKnowledgeRule,
         "TONE: professional, concise, direct",
         "FORMAT: Markdown for headers and lists">>
  ELSE <<"base",
         NoUnsourcedClaimsRule,
         "PDF ANALYSIS: you MUST cite the specific page number",
         "WEB SEARCH: use Google Search, cite the specific URL",
         "OUTPUT FORMAT: Markdown with inline citations",
         EvidenceGraphRule,
         "it must be an array of objects",
         FieldRule("claim"), FieldRule("sourceType"),
         FieldRule("sourceName"), FieldRule("sourceReference"),
         "example JSON structure",
         "TONE: professional, objective, executive summary">>

TextPart(t) == [text |-> t]

InlinePart(att) == [inlineData |-> [mimeType |-> att.mimeType, data |-> att.data]]

\* line 79: the template literal around att.name
FileContext(name) == <<"[File Context: ", name, "]">>

\* lines 70-73: history.map, one content per turn
\* faulty variant of historyContents: the attachments of a turn are sent again
historyContents_withAttachments(history) ==
  [k \in 1..Len(history) |->
     [role  |-> history[k].role,
      parts |-> <<TextPart(history[k].text)>>
                \o [n \in 1..Len(history[k].attachments) |-> InlinePart(history[k].attachments[n])]]]

historyContents(history) ==
  [k \in 1..Len(history) |->
     [role |-> history[k].role, parts |-> <<TextPart(history[k].text)>>]]

\* lines 76-87: attachments.forEach pushes the marker, then the payload
RECURSIVE attachmentParts(_)
attachmentParts(attachments) ==
  IF attachments = <<>> THEN <<>>
  ELSE <<TextPart(FileContext(Head(attachments).name)), InlinePart(Head(attachments))>>
       \o attachmentParts(Tail(attachments))

\* lines 76-90: currentParts after the final push of the prompt
\* faulty variant of currentParts: an empty prompt is not pushed
currentParts_skipEmpty(attachments, currentPrompt) ==
  IF currentPrompt = <<>>
  THEN attachmentParts(attachments)
  ELSE Append(attachmentParts(attachments), TextPart(currentPrompt))

currentParts(attachments, currentPrompt) ==
  Append(attachmentParts(attachments), TextPart(currentPrompt))

Undefined    == [defined |-> FALSE, list |-> <<>>]
GoogleSearch == [defined |-> TRUE,  list |-> <<"googleSearch">>]

\* lines 93-106: the model of each mode
modelName(mode) ==
  IF mode = "deep" THEN "gemini-3-pro-preview"
  ELSE IF mode = "web" THEN "gemini-2.5-flash"
  ELSE "gemini-2.5-flash"

\* lines 94-106: the tools of each mode
\* faulty variant of tools: the search tool is sent in every mode
tools_always(mode) == GoogleSearch

tools(mode) ==
  IF mode = "deep" THEN GoogleSearch
  ELSE IF mode = "web" THEN GoogleSearch
  ELSE Undefined

\* lines 109-119: the argument of ai.models.generateContent
generateContentArg(a) ==
  [model    |-> modelName(a.mode),
   contents |-> Append(historyContents(a.history),
                       [role |-> "user", parts |-> currentParts(a.attachments, a.currentPrompt)]),
   config   |-> [systemInstruction |-> getSystemInstruction(a.mode), tools |-> tools(a.mode)]]

(***************************************************************************)
(* The responses the model API may return (line 109).  Texts come in four  *)
(* families: every short text over the core tokens, one block with every   *)
(* rendered JSON content, two blocks with every fence label, and a few     *)
(* hand-picked texts.                                                      *)
(***************************************************************************)
RECURSIVE Render(_, _)
RECURSIVE RenderItems(_, _)

\* the JSON text of a value, compact or (spaced) with whitespace around items
Render(v, spaced) ==
  IF v.kind = "list"
  THEN <<LB>> \o (IF spaced THEN <<W>> ELSE <<>>) \o RenderItems(v.items, spaced)
            \o (IF spaced THEN <<W>> ELSE <<>>) \o <<RB>>
  ELSE IF v.kind = "string" THEN <<Q>> \o v.atom \o <<Q>>
  ELSE IF v.kind = "null" THEN <<NUL>>
  ELSE v.atom

RenderItems(vs, spaced) ==
  IF vs = <<>> THEN <<>>
  ELSE IF Len(vs) = 1 THEN Render(vs[1], spaced)
  ELSE Render(vs[1], spaced) \o <<CM>> \o (IF spaced THEN <<W>> ELSE <<>>)
         \o RenderItems(Tail(vs), spaced)

\* list elements: a well-formed evidence object, a malformed one, and non-objects
Elems == {JObject(O1), JObject(O2), JNumber(<<N5>>), JNull, JString(<<X>>),
          JList(<<JNumber(<<N5>>)>>)}

ItemLists == UNION {[1..n -> Elems] : n \in 0..MaxItems}

ListContents == {Render(JList(vs), sp) : vs \in ItemLists, sp \in BOOLEAN}

NonListContents == {<<N5>>, <<N5, N5>>, <<NUL>>, <<O1>>, <<O2>>, <<Q, X, Q>>, <<Q, Q>>}

InvalidContents == {<<X>>, <<LB>>, <<LB, N5>>, <<LB, N5, CM, RB>>, <<LB, CM, N5, RB>>,
                    <<N5, X>>, <<RB>>, <<Q, X>>, <<LB, RB, RB>>, <<LB, N5, N5, W, N5, RB>>,
                    <<O1, CM, O1>>, <<J>>}

ShortAlphabet == {F, J, W, X, LB, RB, N5}

ShortTexts == UNION {[1..n -> ShortAlphabet] : n \in 0..MaxShort}

OneBlockTexts ==
  { Flatten(<<pre, <<F, J>>, pad, c, pad, <<F>>, post>>) :
      pre \in {<<>>, <<X, W>>}, pad \in {<<>>, <<W>>},
      c \in ListContents \cup NonListContents \cup InvalidContents,
      post \in {<<>>, <<W>>, <<W, X>>} }

Labels == {<<F, J>>, <<F>>, <<F, JU>>, <<F, JS>>, <<F, J, X>>, <<F, J, N5>>}

FewContents == {<<>>, <<LB, N5, RB>>, <<LB, O1, CM, O2, RB>>, <<X>>, <<N5>>,
                <<LB, Q, F, Q, RB>>}

FirstBlocks ==
  { Flatten(<<open, pad, c, pad, close>>) :
      open \in Labels, pad \in {<<>>, <<W>>}, c \in FewContents, close \in {<<F>>, <<>>} }

SecondBlocks == {<<>>, <<F, J, LB, N5, RB, F>>, <<F, J, W, X, W, F>>, <<F, W, LB, N5, RB, W, F>>}

TwoBlockTexts ==
  { Flatten(<<pre, b1, mid, IF b2 = <<"again">> THEN b1 ELSE b2, post>>) :
      pre \in {<<>>, <<X, W>>, <<W, X>>}, b1 \in FirstBlocks, mid \in {<<>>, <<W>>},
      b2 \in SecondBlocks \cup {<<"again">>}, post \in {<<>>, <<W>>, <<W, X>>} }

PickedTexts ==
  { <<F, F, J, LB, N5, RB, F, J, LB, O1, RB, F>>,            \* removal joins a new block
    <<F, W, X, W, F, J, W, LB, N5, RB, W, F>>,               \* json after a closing fence
    <<X, W, F, J, W, LB, O1, CM, W, O1, RB, W, F>>,          \* the instructed layout
    <<F, J, W, F, W, F, J, LB, N5, RB, F>> }                 \* an empty block first

ResponseTexts == ShortTexts \cup OneBlockTexts \cup TwoBlockTexts \cup PickedTexts

SampleTexts == {<<>>, <<X>>, <<X, W, F, J, W, LB, O1, RB, W, F>>, <<F, J, X, F>>}

WebA == [hasWeb |-> TRUE,  uri |-> "https://a.example"]
WebB == [hasWeb |-> TRUE,  uri |-> "https://b.example"]
NoWeb == [hasWeb |-> FALSE, uri |-> ""]

ChunkLists == UNION {[1..n -> {WebA, WebB, NoWeb}] : n \in 0..MaxChunks}

Candidate(hasMetadata, hasChunks, chunks) ==
  [hasMetadata |-> hasMetadata, hasChunks |-> hasChunks, chunks |-> chunks]

NoCandidates == [present |-> FALSE, list |-> <<>>]

CandidateLists ==
  {NoCandidates, [present |-> TRUE, list |-> <<>>],
   [present |-> TRUE, list |-> <<Candidate(FALSE, FALSE, <<>>)>>],
   [present |-> TRUE, list |-> <<Candidate(TRUE, FALSE, <<>>)>>],
   [present |-> TRUE, list |-> <<Candidate(FALSE, FALSE, <<>>), Candidate(TRUE, TRUE, <<WebA>>)>>]}
  \cup {[present |-> TRUE, list |-> <<Candidate(TRUE, TRUE, cl)>>] : cl \in ChunkLists}
  \cup {[present |-> TRUE, list |-> <<Candidate(TRUE, TRUE, cl), Candidate(TRUE, TRUE, <<WebB>>)>>] :
          cl \in {<<>>, <<NoWeb, WebA>>}}

Response(hasText, text, candidates) ==
  [arrived |-> TRUE, hasText |-> hasText, text |-> text, candidates |-> candidates]

Responses ==
  {Response(TRUE, t, [present |-> TRUE, list |-> <<Candidate(TRUE, TRUE, <<NoWeb, WebA>>)>>]) :
     t \in ResponseTexts}
  \cup {Response(TRUE, t, c) : t \in SampleTexts, c \in CandidateLists}
  \cup {Response(FALSE, <<>>, c) : c \in CandidateLists}

ApiErrors == {"network", "quota"}

SampleResponses ==
  {Response(TRUE, t, c) :
     t \in SampleTexts,
     c \in {NoCandidates, [present |-> TRUE, list |-> <<Candidate(TRUE, TRUE, <<NoWeb, WebA>>)>>]}}
  \cup {Response(FALSE, <<>>, NoCandidates)}

(***************************************************************************)
(* File intake (utils.ts).  A file has a name, a MIME type, a content and  *)
(* whether FileReader can read it.                                         *)
(***************************************************************************)
Base64 == [c \in {"", "A", "B"} |-> IF c = "A" THEN "QQ==" ELSE IF c = "B" THEN "Qg==" ELSE ""]

\* line 6: what readAsDataURL leaves in reader.result
readAsDataURL(file) ==
  <<"data:", file.type, ";base64", CM>>
  \o (IF Base64[file.content] = "" THEN <<>> ELSE <<Base64[file.content]>>)

\* line 10: result.split(',')[1], the piece between the first comma and the next
splitComma1(s) ==
  LET commas == {i \in 1..Len(s) : s[i] = CM}
  IN  IF commas = {} THEN <<"undefined">>
      ELSE LET c1 == SetMin(commas)
               c2 == SetMin({i \in (c1 + 1)..(Len(s) + 1) : i = Len(s) + 1 \/ s[i] = CM})
           IN  SubSeq(s, c1 + 1, c2 - 1)

\* lines 3-15: what the promise of fileToBase64 resolves with for a readable file
fileToBase64(file) == splitComma1(readAsDataURL(file))

\* lines 28-32: the attachment pushed for a file
Attachment(file) ==
  [name |-> file.name, mimeType |-> file.type, data |-> fileToBase64(file)]

\* lines 21-37: one turn of the loop of a processFiles invocation u
\* faulty variant of loopBody: a failed read ends the loop
loopBody_abortOnError(u) ==
  LET file == u.files[u.i]
  IN  IF file.type = "application/pdf"
      THEN IF file.readable
           THEN [u EXCEPT !.i = @ + 1, !.attachments = Append(@, Attachment(file))]
           ELSE [u EXCEPT !.i = Len(u.files) + 1]
      ELSE [u EXCEPT !.i = @ + 1]

loopBody(u) ==
  LET file == u.files[u.i]
  IN  IF file.type = "application/pdf"
      THEN IF file.readable
           THEN [u EXCEPT !.i = @ + 1, !.attachments = Append(@, Attachment(file))]
           ELSE [u EXCEPT !.i = @ + 1]
      ELSE [u EXCEPT !.i = @ + 1]

\* lines 18-20: a processFiles invocation before its loop
processFiles(files) == [files |-> files, i |-> 1, attachments |-> <<>>]

FileA   == [name |-> "a.pdf", type |-> "application/pdf", content |-> "A", readable |-> TRUE]
FileB   == [name |-> "b.pdf", type |-> "application/pdf", content |-> "B", readable |-> TRUE]
FileBad == [name |-> "c.pdf", type |-> "application/pdf", content |-> "A", readable |-> FALSE]
FilePng == [name |-> "d.png", type |-> "image/png",       content |-> "B", readable |-> TRUE]

Files == {FileA, FileB, FileBad, FilePng}

\* the FileList values processFiles is applied to
Batches == UNION {[1..n -> Files] : n \in 0..MaxBatch}

(***************************************************************************)
(* Turns, and the arguments generateResearchResponse is called with        *)
(***************************************************************************)
Message(role, text, attachments, groundingChunks, evidence) ==
  [role |-> role, text |-> text, attachments |-> attachments,
   groundingChunks |-> groundingChunks, evidence |-> evidence]

\* ResearchInterface.tsx lines 10-23
Welcome == Message("model", <<"welcome">>, <<>>, <<>>, <<>>)

\* lines 108-115: the model turn made of what the call returned
aiMsg(r) == Message("model", r.text, <<>>, r.groundingChunks, r.evidence)

\* lines 241-269: one node of the evidence graph; item.claim is read first,
\* and reading a property of null throws a TypeError
evidenceNode(item) == IF item.kind = "null" THEN "throws" ELSE "node"

\* lines 231-273: the evidence graph of a turn; an error thrown while a
\* node renders leaves nothing of the turn on the page
evidenceGraph(msg) ==
  IF msg.evidence # <<>>
  THEN IF \E i \in 1..Len(msg.evidence) : evidenceNode(msg.evidence[i]) = "throws"
       THEN "throws"
       ELSE "shown"
  ELSE "hidden"

\* lines 276-299: the list of web sources of a turn
webSources(msg) ==
  IF msg.evidence = <<>> /\ msg.groundingChunks # <<>> THEN "shown" ELSE "hidden"

Modes == {"fast", "web", "deep"}

Prompts == {<<>>, <<W>>, <<X>>}

SomeAttachments ==
  {Attachment(FileA), Attachment(FileB),
   [name |-> "a.pdf", mimeType |-> "application/pdf", data |-> <<"Qg==">>]}

AttachmentLists == UNION {[1..n -> SomeAttachments] : n \in 0..MaxAttachments}

SampleEvidence == Extract(Response(TRUE, <<X, W, F, J, W, LB, O1, RB, W, F>>, NoCandidates)).evidence

SomeTurns ==
  {Welcome,
   Message("user", <<X>>, <<Attachment(FileA)>>, <<>>, <<>>),
   Message("user", <<>>, <<Attachment(FileB), Attachment(FileA)>>, <<>>, <<>>),
   Message("model", <<X, W, X>>, <<>>, <<NoWeb, WebA>>, SampleEvidence)}

Histories == UNION {[1..n -> SomeTurns] : n \in 0..MaxHistory}

Args(currentPrompt, history, attachments, mode) ==
  [currentPrompt |-> currentPrompt, history |-> history,
   attachments |-> attachments, mode |-> mode]

\* a first question, asked in the default mode
FirstArgs == Args(<<X>>, <<Welcome>>, <<>>, "web")

CallArgs ==
  {Args(p, <<Welcome>>, al, m) : p \in Prompts, al \in AttachmentLists, m \in Modes}
  \cup {Args(<<X>>, h, <<Attachment(FileA)>>, m) : h \in Histories, m \in Modes}

(***************************************************************************)
(* The call as a state machine: pc is the position of one call of          *)
(* generateResearchResponse.                                               *)
(***************************************************************************)
NoResponse == [arrived |-> FALSE, hasText |-> FALSE, text |-> <<>>, candidates |-> NoCandidates]
NoResult   == [text |-> <<>>, groundingChunks |-> <<>>, evidence |-> <<>>]
NoRequest  == [model |-> "", contents |-> <<>>,
               config |-> [systemInstruction |-> <<>>, tools |-> Undefined]]

\* ResearchInterface.tsx lines 10-29: the state of the component when mounted
InitialState ==
  [messages |-> <<Welcome>>, input |-> <<>>, isLoading |-> FALSE,
   attachments |-> <<>>, modelMode |-> "web"]

InitCall(a) ==
  /\ pc = "idle"
  /\ response = NoResponse
  /\ result = NoResult
  /\ thrown = "none"
  /\ args = a
  /\ request = NoRequest
  /\ apiError = "none"

InitUI ==
  /\ ui = InitialState
  /\ rendered = InitialState
  /\ pending = <<>>
  /\ uploads = <<>>
  /\ handled = "none"

Init == InitCall(FirstArgs) /\ InitUI

\* lines 61-119: the call is made with the arguments args and awaits
\* ai.models.generateContent
\* faulty variant of Call: the current turn is pushed onto the history argument
Call_pushesTurn ==
  /\ pc # "awaiting"
  /\ pc' = "awaiting"
  /\ request' = generateContentArg(args)
  /\ args' = [args EXCEPT !.history =
                Append(@, Message("user", args.currentPrompt, args.attachments, <<>>, <<>>))]
  /\ response' = NoResponse
  /\ result' = NoResult
  /\ thrown' = "none"
  /\ apiError' = "none"
  /\ UNCHANGED uiVars

Call ==
  /\ pc # "awaiting"
  /\ pc' = "awaiting"
  /\ request' = generateContentArg(args)
  /\ response' = NoResponse
  /\ result' = NoResult
  /\ thrown' = "none"
  /\ apiError' = "none"
  /\ UNCHANGED args
  /\ UNCHANGED uiVars

\* lines 152-155: the catch logs the error and throws it again
\* faulty variant of rethrow: the error is replaced by a new one
rethrow_wrapped(error) == "Error: research failed"

rethrow(error) == error

\* lines 121-150: the API call resolved with resp; a throw in these lines
\* reaches the outer catch (lines 152-155), which rethrows it
Resolve(resp) ==
  LET r == Extract(resp)
  IN  /\ response' = resp
      /\ apiError' = "none"
      /\ IF r.threw
         THEN /\ pc' = "rejected"
              /\ thrown' = rethrow("SyntaxError")
              /\ result' = NoResult
         ELSE /\ pc' = "resolved"
              /\ thrown' = "none"
              /\ result' = [text |-> r.text,
                            groundingChunks |-> r.groundingChunks,
                            evidence |-> r.evidence]

\* the API call resolved with any response of the extraction study
ApiResolve ==
  /\ pc = "awaiting"
  /\ \E resp \in Responses : Resolve(resp)
  /\ UNCHANGED <<args, request>>
  /\ UNCHANGED uiVars

\* the API call resolved with a response of the small family
ApiResolveSample ==
  /\ pc = "awaiting"
  /\ \E resp \in SampleResponses : Resolve(resp)
  /\ UNCHANGED <<args, request>>
  /\ UNCHANGED uiVars

\* the API call rejected with err
Reject(err) ==
  /\ pc' = "rejected"
  /\ apiError' = err
  /\ thrown' = rethrow(err)
  /\ UNCHANGED <<response, result>>

ApiReject ==
  /\ pc = "awaiting"
  /\ \E err \in ApiErrors : Reject(err)
  /\ UNCHANGED <<args, request>>
  /\ UNCHANGED uiVars

Next == Call \/ ApiResolve \/ ApiReject

Spec == Init /\ [][Next]_vars

\* the request study: every argument tuple, a few responses
InitRequest == (\E a \in CallArgs : InitCall(a)) /\ InitUI

NextRequest == Call \/ ApiResolveSample \/ ApiReject

SpecRequest == InitRequest /\ [][NextRequest]_vars

(***************************************************************************)
(* The conversation component (ResearchInterface.tsx).  ui is the React    *)
(* state; the handlers read the values of the render they were created in  *)
(* (rendered).  An update made in an event handler is rendered before the  *)
(* next event; an update made after an await is rendered by a later step.  *)
(***************************************************************************)
Inputs == {<<>>, <<W>>, <<X>>}

\* what the user picks in the file dialog of line 378, which has no
\* multiple attribute
Selections == {<<FileA>>, <<FileBad>>}

\* what the model API answers in the conversation study
ConversationResponses ==
  {Response(TRUE, <<X, W, F, J, W, LB, O1, RB, W, F>>,
            [present |-> TRUE, list |-> <<Candidate(TRUE, TRUE, <<NoWeb, WebA>>)>>]),
   Response(TRUE, <<X>>, [present |-> TRUE, list |-> <<Candidate(TRUE, TRUE, <<WebA>>)>>]),
   Response(FALSE, <<>>, NoCandidates)}

\* lines 119-127: the text of errorMsg
Apology == <<"I apologize, but I encountered an error while processing your request.">>

Remove(s, k) == SubSeq(s, 1, k - 1) \o SubSeq(s, k + 1, Len(s))

UserTurns(messages) == Len(SelectSeq(messages, LAMBDA m : m.role = "user"))

\* line 342: onChange of the textarea, which is disabled while loading (line 352)
setInput ==
  /\ ~rendered.isLoading
  /\ \E v \in Inputs :
       /\ v # ui.input
       /\ ui' = [ui EXCEPT !.input = v]
  /\ rendered' = ui'
  /\ UNCHANGED <<pending, uploads, handled>>
  /\ UNCHANGED callVars

\* lines 400-426: the three mode buttons
\* faulty variant of setModelMode: the request in flight follows the mode
setModelMode_retargets ==
  /\ \E m \in Modes :
       /\ m # ui.modelMode
       /\ ui' = [ui EXCEPT !.modelMode = m]
       /\ args' = [args EXCEPT !.mode = m]
       /\ pending' = [k \in 1..Len(pending) |-> [pending[k] EXCEPT !.mode = m]]
  /\ request' = generateContentArg(args')
  /\ rendered' = ui'
  /\ UNCHANGED <<uploads, handled>>
  /\ UNCHANGED <<pc, response, result, thrown, apiError>>

setModelMode ==
  /\ \E m \in Modes :
       /\ m # ui.modelMode
       /\ ui' = [ui EXCEPT !.modelMode = m]
  /\ rendered' = ui'
  /\ UNCHANGED <<pending, uploads, handled>>
  /\ UNCHANGED callVars

\* lines 61-64: a file selection starts processFiles
handleFileUpload ==
  /\ Len(uploads) < MaxUploads
  /\ Len(ui.attachments) + Len(uploads) < MaxStaged
  /\ \E files \in Selections : uploads' = Append(uploads, processFiles(files))
  /\ UNCHANGED <<ui, rendered, pending, handled>>
  /\ UNCHANGED callVars

\* utils.ts lines 21-37: a processFiles invocation handles its next file
fileRead ==
  /\ \E k \in 1..Len(uploads) :
       /\ uploads[k].i <= Len(uploads[k].files)
       /\ uploads' = [uploads EXCEPT ![k] = loopBody(@)]
  /\ UNCHANGED <<ui, rendered, pending, handled>>
  /\ UNCHANGED callVars

\* utils.ts line 38 and lines 64-65: processFiles returns and handleFileUpload
\* appends what it returned to the staged attachments
\* faulty variant of handleFileUploadThen: the loop is not waited for
handleFileUploadThen_early ==
  /\ \E k \in 1..Len(uploads) :
       /\ ui' = [ui EXCEPT !.attachments = @ \o uploads[k].attachments]
       /\ uploads' = Remove(uploads, k)
  /\ UNCHANGED <<rendered, pending, handled>>
  /\ UNCHANGED callVars

handleFileUploadThen ==
  /\ \E k \in 1..Len(uploads) :
       /\ uploads[k].i > Len(uploads[k].files)
       /\ ui' = [ui EXCEPT !.attachments = @ \o uploads[k].attachments]
       /\ uploads' = Remove(uploads, k)
  /\ UNCHANGED <<rendered, pending, handled>>
  /\ UNCHANGED callVars

\* lines 71-73, 364: the remove button of a rendered attachment
removeAttachment ==
  /\ \E index \in 1..Len(rendered.attachments) :
       ui' = [ui EXCEPT !.attachments = Remove(@, index)]
  /\ rendered' = ui'
  /\ UNCHANGED <<pending, uploads, handled>>
  /\ UNCHANGED callVars

\* React renders the updates made after an await
rerender ==
  /\ rendered # ui
  /\ rendered' = ui
  /\ UNCHANGED <<ui, pending, uploads, handled>>
  /\ UNCHANGED callVars

\* line 77: the guard of handleSubmit, on the values of the render
\* faulty variant of admitted: isLoading is not looked at
admitted_ignoresLoading(r) == ~(trim(r.input) = <<>> /\ Len(r.attachments) = 0)

\* faulty variant of admitted: an empty submission goes through
admitted_ignoresEmpty(r) == ~r.isLoading

admitted(r) == ~((trim(r.input) = <<>> /\ Len(r.attachments) = 0) \/ r.isLoading)

\* lines 75-106: a submit event (form submit or Enter), up to the await of
\* ai.models.generateContent inside generateResearchResponse
\* faulty variant of handleSubmit: the history argument is the conversation
\* after the user turn was appended
handleSubmit_sendsNewTurn ==
  /\ UserTurns(ui.messages) < MaxSubmits
  /\ IF ~admitted(rendered)
     THEN /\ handled' = "returned"
          /\ UNCHANGED <<ui, rendered, pending, uploads>>
          /\ UNCHANGED callVars
     ELSE LET userMsg == Message("user", rendered.input, rendered.attachments, <<>>, <<>>)
          IN  /\ handled' = "admitted"
              /\ ui' = [ui EXCEPT !.messages = Append(@, userMsg),
                                  !.input = <<>>,
                                  !.attachments = <<>>,
                                  !.isLoading = TRUE]
              /\ rendered' = ui'
              /\ args' = Args(rendered.input, ui'.messages,
                              rendered.attachments, rendered.modelMode)
              /\ request' = generateContentArg(args')
              /\ pending' = Append(pending, args')
              /\ pc' = "awaiting"
              /\ response' = NoResponse
              /\ result' = NoResult
              /\ thrown' = "none"
              /\ apiError' = "none"
              /\ UNCHANGED uploads

\* faulty variant of handleSubmit: the staging area is not emptied
handleSubmit_keepsStaging ==
  /\ UserTurns(ui.messages) < MaxSubmits
  /\ IF ~admitted(rendered)
     THEN /\ handled' = "returned"
          /\ UNCHANGED <<ui, rendered, pending, uploads>>
          /\ UNCHANGED callVars
     ELSE LET userMsg == Message("user", rendered.input, rendered.attachments, <<>>, <<>>)
          IN  /\ handled' = "admitted"
              /\ ui' = [ui EXCEPT !.messages = Append(@, userMsg),
                                  !.input = <<>>,
                                  !.isLoading = TRUE]
              /\ rendered' = ui'
              /\ args' = Args(rendered.input, rendered.messages,
                              rendered.attachments, rendered.modelMode)
              /\ request' = generateContentArg(args')
              /\ pending' = Append(pending, args')
              /\ pc' = "awaiting"
              /\ response' = NoResponse
              /\ result' = NoResult
              /\ thrown' = "none"
              /\ apiError' = "none"
              /\ UNCHANGED uploads

handleSubmit ==
  /\ UserTurns(ui.messages) < MaxSubmits
  /\ IF ~admitted(rendered)
     THEN /\ handled' = "returned"
          /\ UNCHANGED <<ui, rendered, pending, uploads>>
          /\ UNCHANGED callVars
     ELSE LET userMsg == Message("user", rendered.input, rendered.attachments, <<>>, <<>>)
          IN  /\ handled' = "admitted"
              /\ ui' = [ui EXCEPT !.messages = Append(@, userMsg),
                                  !.input = <<>>,
                                  !.attachments = <<>>,
                                  !.isLoading = TRUE]
              /\ rendered' = ui'
              /\ args' = Args(rendered.input, rendered.messages,
                              rendered.attachments, rendered.modelMode)
              /\ request' = generateContentArg(args')
              /\ pending' = Append(pending, args')
              /\ pc' = "awaiting"
              /\ response' = NoResponse
              /\ result' = NoResult
              /\ thrown' = "none"
              /\ apiError' = "none"
              /\ UNCHANGED uploads

\* lines 108-117, 119-130: the awaited call returned; a throw of the call
\* is handled by the catch
\* faulty variant of handleSubmitThen: the model turn takes the place of the
\* last turn
handleSubmitThen_overwrites ==
  /\ \E k \in 1..Len(pending), resp \in ConversationResponses :
       /\ Resolve(resp)
       /\ ui' = [ui EXCEPT !.messages[Len(ui.messages)] = aiMsg(result'),
                           !.isLoading = FALSE]
       /\ pending' = Remove(pending, k)
  /\ UNCHANGED <<args, request, rendered, uploads, handled>>

handleSubmitThen ==
  /\ \E k \in 1..Len(pending), resp \in ConversationResponses :
       /\ Resolve(resp)
       /\ LET msg == IF pc' = "rejected"
                     THEN Message("model", Apology, <<>>, <<>>, <<>>)
                     ELSE aiMsg(result')
          IN  ui' = [ui EXCEPT !.messages = Append(@, msg), !.isLoading = FALSE]
       /\ pending' = Remove(pending, k)
  /\ UNCHANGED <<args, request, rendered, uploads, handled>>

\* lines 119-130: the awaited call rejected
\* faulty variant of handleSubmitCatch: the request is sent again
handleSubmitCatch_retries ==
  /\ \E k \in 1..Len(pending), err \in ApiErrors :
       LET errorMsg == Message("model", Apology, <<>>, <<>>, <<>>)
       IN  /\ Reject(err)
           /\ ui' = [ui EXCEPT !.messages = Append(@, errorMsg), !.isLoading = FALSE]
           /\ pending' = pending
  /\ UNCHANGED <<args, request, rendered, uploads, handled>>

\* faulty variant of handleSubmitCatch: no apology turn is appended
handleSubmitCatch_silent ==
  /\ \E k \in 1..Len(pending), err \in ApiErrors :
       /\ Reject(err)
       /\ ui' = [ui EXCEPT !.isLoading = FALSE]
       /\ pending' = Remove(pending, k)
  /\ UNCHANGED <<args, request, rendered, uploads, handled>>

\* faulty variant of handleSubmitCatch: the finally block is left out
handleSubmitCatch_keepsLoading ==
  /\ \E k \in 1..Len(pending), err \in ApiErrors :
       LET errorMsg == Message("model", Apology, <<>>, <<>>, <<>>)
       IN  /\ Reject(err)
           /\ ui' = [ui EXCEPT !.messages = Append(@, errorMsg)]
           /\ pending' = Remove(pending, k)
  /\ UNCHANGED <<args, request, rendered, uploads, handled>>

handleSubmitCatch ==
  /\ \E k \in 1..Len(pending), err \in ApiErrors :
       LET errorMsg == Message("model", Apology, <<>>, <<>>, <<>>)
       IN  /\ Reject(err)
           /\ ui' = [ui EXCEPT !.messages = Append(@, errorMsg), !.isLoading = FALSE]
           /\ pending' = Remove(pending, k)
  /\ UNCHANGED <<args, request, rendered, uploads, handled>>

NextUI ==
  \/ setInput \/ setModelMode
  \/ handleFileUpload \/ fileRead \/ handleFileUploadThen \/ removeAttachment
  \/ rerender
  \/ handleSubmit \/ handleSubmitThen \/ handleSubmitCatch

SpecUI == Init /\ [][NextUI]_vars

\* the conversation when every call in flight settles (the promise of line
\* 100 resolves or rejects) and React renders the updates it has queued
SpecUILive ==
  /\ SpecUI
  /\ WF_vars(handleSubmitThen \/ handleSubmitCatch)
  /\ WF_vars(rerender)

\* the file intake study: processFiles applied to every FileList
InitFiles ==
  /\ InitCall(FirstArgs)
  /\ ui = InitialState
  /\ rendered = InitialState
  /\ pending = <<>>
  /\ handled = "none"
  /\ \E files \in Batches : uploads = <<processFiles(files)>>

NextFiles == fileRead \/ handleFileUploadThen \/ rerender

SpecFiles == InitFiles /\ [][NextFiles]_vars

(***************************************************************************)
(* Vocabulary of the properties, stated on the raw text itself             *)
(***************************************************************************)
raw == response.text

\* the call resolved for a response that carried a text (possibly empty)
Resolved == pc = "resolved" /\ response.arrived /\ response.hasText

IsInfix(sub, s) ==
  \E k \in 0..(Len(s) - Len(sub)) : SubSeq(s, k + 1, k + Len(sub)) = sub

LeadWs(s)  == SetMin({k \in 0..Len(s) : k = Len(s) \/ s[k + 1] # W})
TrailWs(s) == SetMin({k \in 0..Len(s) : k = Len(s) \/ s[Len(s) - k] # W})

StripStart(s) == SubSeq(s, LeadWs(s) + 1, Len(s))
StripEnd(s)   == SubSeq(s, 1, Len(s) - TrailWs(s))
Strip(s)      == StripEnd(StripStart(s))

\* the json fenced blocks of a text, left to right: each runs from a fence
\* followed by json to the nearest later fence, and the next one is looked
\* for after that closing fence
Openings(s, k) ==
  {i \in k..(Len(s) - 2) : s[i] = F /\ s[i + 1] = J /\ \E j \in (i + 2)..Len(s) : s[j] = F}

RECURSIVE BlocksFrom(_, _)
BlocksFrom(s, k) ==
  IF Openings(s, k) = {} THEN <<>>
  ELSE LET i == SetMin(Openings(s, k))
           j == SetMin({n \in (i + 2)..Len(s) : s[n] = F})
       IN  <<[open |-> i, close |-> j]>> \o BlocksFrom(s, j + 1)

Blocks(s) == BlocksFrom(s, 1)

BlockText(s, b)    == SubSeq(s, b.open, b.close)
BlockContent(s, b) == Strip(SubSeq(s, b.open + 2, b.close - 1))
Before(s, b)       == SubSeq(s, 1, b.open - 1)
After(s, b)        == SubSeq(s, b.close + 1, Len(s))

HasBlock   == Blocks(raw) # <<>>
FirstBlock == Blocks(raw)[1]

\* the content of block b is the JSON text of the list vs
EnclosesList(s, b, vs) ==
  \E sp \in BOOLEAN : BlockContent(s, b) = Render(JList(vs), sp)

\* the lists that a rendered list content is the JSON text of
ListsOf == [c \in ListContents |->
              {vs \in ItemLists : \E sp \in BOOLEAN : c = Render(JList(vs), sp)}]

FirstParsed == JSONparse(BlockContent(raw, FirstBlock))
FirstIsList == HasBlock /\ FirstParsed.ok /\ FirstParsed.val.kind = "list"

(***************************************************************************)
(* C1                                                                      *)
(***************************************************************************)
\* C1 as stated: whenever the raw text contains a json fenced block enclosing
\* a valid JSON list, the evidence is that list and the text is the raw text
\* with the block and the whitespace around the block removed.
C1_AnyBlockRoundTrip ==
  Resolved =>
    \A n \in 1..Len(Blocks(raw)) :
      BlockContent(raw, Blocks(raw)[n]) \in ListContents =>
        \A vs \in ListsOf[BlockContent(raw, Blocks(raw)[n])] :
          /\ result.evidence = vs
          /\ result.text = StripEnd(Before(raw, Blocks(raw)[n]))
                             \o StripStart(After(raw, Blocks(raw)[n]))

\* C1 amended: when the FIRST json fenced block of the raw text encloses a
\* valid JSON list of N items, the evidence is exactly those N items in
\* order, and the text is the raw text with that block removed and then
\* trimmed at its two ends (whitespace beside a block in the middle stays).
C1_FirstBlockRoundTrip ==
  (Resolved /\ HasBlock /\ BlockContent(raw, FirstBlock) \in ListContents) =>
      \A vs \in ListsOf[BlockContent(raw, FirstBlock)] :
        /\ result.evidence = vs
        /\ Len(result.evidence) = Len(vs)
        /\ result.text = Strip(Before(raw, FirstBlock) \o After(raw, FirstBlock))

\* a two-item list was extracted from a block with prose on both sides
C1_Witness ==
  /\ Resolved /\ HasBlock
  /\ Len(result.evidence) = 2
  /\ result.evidence[1] # result.evidence[2]
  /\ EnclosesList(raw, FirstBlock, result.evidence)
  /\ X \in {Before(raw, FirstBlock)[k] : k \in 1..Len(Before(raw, FirstBlock))}
  /\ X \in {After(raw, FirstBlock)[k] : k \in 1..Len(After(raw, FirstBlock))}
  /\ result.text = Strip(Before(raw, FirstBlock) \o After(raw, FirstBlock))

(***************************************************************************)
(* C2                                                                      *)
(***************************************************************************)
\* C2: when the content of the json fenced block is not valid JSON
\* (JSON.parse throws on it), the evidence is empty and the text is the raw
\* text, block included.
C2_InvalidBlockKept ==
  (Resolved /\ HasBlock /\ ~FirstParsed.ok) =>
    /\ result.evidence = <<>>
    /\ result.text = raw
    /\ IsInfix(BlockText(raw, FirstBlock), result.text)

\* a block holding a list with a trailing comma, whitespace around the text
C2_Witness ==
  /\ Resolved /\ HasBlock
  /\ BlockContent(raw, FirstBlock) = <<LB, N5, CM, RB>>
  /\ raw[Len(raw)] = W
  /\ result.text = raw
  /\ result.evidence = <<>>

(***************************************************************************)
(* C3                                                                      *)
(***************************************************************************)
\* C3 as stated: a raw text with no json fenced block is returned unchanged,
\* with no evidence.
C3_NoBlockUnchanged ==
  (Resolved /\ ~HasBlock) =>
    /\ result.evidence = <<>>
    /\ result.text = raw

\* C3 amended: a NON-EMPTY raw text with no json fenced block is returned
\* unchanged, with no evidence (an empty text is replaced by the placeholder).
C3_NoBlockNonEmptyUnchanged ==
  (Resolved /\ ~HasBlock /\ raw # <<>>) =>
    /\ result.evidence = <<>>
    /\ result.text = raw

\* a text with whitespace at its ends and a fence, but no json block
C3_Witness ==
  /\ Resolved /\ ~HasBlock
  /\ Len(raw) >= 3 /\ raw[1] = W /\ raw[Len(raw)] = W
  /\ F \in {raw[k] : k \in 1..Len(raw)}
  /\ result.text = raw
  /\ result.evidence = <<>>

(***************************************************************************)
(* C4                                                                      *)
(***************************************************************************)
\* C4: when the content of the json fenced block is valid JSON but not a
\* list, the evidence is empty and the text is the raw text, block included.
C4_NonListBlockKept ==
  (Resolved /\ HasBlock /\ FirstParsed.ok /\ FirstParsed.val.kind # "list") =>
    /\ result.evidence = <<>>
    /\ result.text = raw

\* a block holding one object, whitespace around the text
C4_Witness ==
  /\ Resolved /\ HasBlock
  /\ FirstParsed.ok /\ FirstParsed.val.kind = "object"
  /\ raw[Len(raw)] = W
  /\ result.text = raw
  /\ result.evidence = <<>>

(***************************************************************************)
(* C5                                                                      *)
(***************************************************************************)
\* C5: once the API call has succeeded the call resolves, whatever the text
\* holds; it rejects only with the error of the API call.
C5_NeverRaises ==
  /\ response.arrived => (pc = "resolved" /\ thrown = "none")
  /\ pc = "rejected" => (thrown \in ApiErrors /\ ~response.arrived)

\* the call resolved for a text whose block made JSON.parse throw
C5_Witness ==
  /\ Resolved /\ HasBlock
  /\ BlockContent(raw, FirstBlock) # <<>>
  /\ ~FirstParsed.ok
  /\ thrown = "none"

Again == Extract(Response(TRUE, result.text, NoCandidates))

\* C7 as stated: when the extraction stripped a block, running it again on
\* the returned text yields no evidence and the same text.
C7_Idempotent ==
  (Resolved /\ FirstIsList) =>
    /\ ~Again.threw
    /\ Again.evidence = <<>>
    /\ Again.text = result.text

\* C7 amended: when the extraction stripped a block, the raw text holds no
\* fence after that block and the returned text is not empty, running the
\* extraction again on the returned text yields no evidence and the same text.
C7_IdempotentWhenBlockLast ==
  (Resolved /\ FirstIsList /\ result.text # <<>>
     /\ \A k \in 1..Len(After(raw, FirstBlock)) : After(raw, FirstBlock)[k] # F) =>
    /\ ~Again.threw
    /\ Again.evidence = <<>>
    /\ Again.text = result.text

\* a block at the end was stripped, fences remain before it, and the second
\* run changes nothing
C7_Witness ==
  /\ Resolved /\ FirstIsList
  /\ result.evidence # <<>>
  /\ \A k \in 1..Len(After(raw, FirstBlock)) : After(raw, FirstBlock)[k] # F
  /\ \E k \in 1..Len(Before(raw, FirstBlock)) : Before(raw, FirstBlock)[k] = F
  /\ result.text # raw
  /\ Again.evidence = <<>>
  /\ Again.text = result.text

(***************************************************************************)
(* C8                                                                      *)
(***************************************************************************)
\* C8: in a text with several json fenced blocks only the first counts: if
\* it is empty or does not parse to a list, the evidence is empty and the
\* text is the raw text, whatever the later blocks hold; if it is a list,
\* the evidence is its items; and every later block is still in the text.
C8_OnlyFirstBlock ==
  (Resolved /\ Len(Blocks(raw)) >= 2) =>
    /\ ~FirstIsList => (result.evidence = <<>> /\ result.text = raw)
    /\ FirstIsList => result.evidence = FirstParsed.val.items
    /\ \A n \in 2..Len(Blocks(raw)) :
         IsInfix(BlockText(raw, Blocks(raw)[n]), result.text)

\* the first block does not parse, the second holds a one-item list, and
\* nothing was extracted
C8_Witness ==
  /\ Resolved /\ Len(Blocks(raw)) >= 2
  /\ BlockContent(raw, FirstBlock) # <<>>
  /\ ~FirstParsed.ok
  /\ \E vs \in ItemLists : Len(vs) = 1 /\ EnclosesList(raw, Blocks(raw)[2], vs)
  /\ result.evidence = <<>>
  /\ result.text = raw

(***************************************************************************)
(* C9                                                                      *)
(***************************************************************************)
LabelChars == {J, JU, JS, X, N5}

Fences(s) == {i \in 1..Len(s) : s[i] = F}

\* the fence at i carries exactly the label json
JsonLabelled(s, i) ==
  /\ i + 1 <= Len(s) /\ s[i + 1] = J
  /\ (i + 2 > Len(s) \/ s[i + 2] \notin LabelChars)

\* C9: a text that has fences, none of them labelled exactly json (they are
\* unlabelled, or labelled JSON, js, jsonc, json5), is returned unchanged
\* with no evidence.
C9_OnlyJsonLabel ==
  (Resolved /\ Fences(raw) # {} /\ \A i \in Fences(raw) : ~JsonLabelled(raw, i)) =>
    /\ result.evidence = <<>>
    /\ result.text = raw

\* a block labelled JSON that holds a list, in a text with whitespace at its
\* end, was left alone
C9_Witness ==
  /\ Resolved
  /\ \A i \in Fences(raw) : ~JsonLabelled(raw, i)
  /\ \E i \in Fences(raw) :
       /\ i + 5 <= Len(raw)
       /\ SubSeq(raw, i + 1, i + 5) = <<JU, LB, N5, RB, F>>
  /\ raw[Len(raw)] = W
  /\ result.evidence = <<>>
  /\ result.text = raw

(***************************************************************************)
(* C10                                                                     *)
(***************************************************************************)
MetadataPresent ==
  /\ response.candidates.present
  /\ response.candidates.list # <<>>
  /\ Head(response.candidates.list).hasMetadata
  /\ Head(response.candidates.list).hasChunks

\* C10: the returned groundingChunks is the list of the first candidate's
\* grounding metadata, entries without web included, when that list is
\* present, and the empty list otherwise.
C10_GroundingPassThrough ==
  pc = "resolved" =>
    /\ MetadataPresent =>
         result.groundingChunks = Head(response.candidates.list).chunks
    /\ ~MetadataPresent => result.groundingChunks = <<>>

\* evidence was extracted and a chunk without web came through, in its place
C10_Witness ==
  /\ pc = "resolved"
  /\ MetadataPresent
  /\ result.evidence # <<>>
  /\ Len(result.groundingChunks) = 2
  /\ ~result.groundingChunks[1].hasWeb
  /\ result.groundingChunks[2].hasWeb
  /\ result.groundingChunks = Head(response.candidates.list).chunks

(***************************************************************************)
(* Vocabulary of the request properties                                    *)
(***************************************************************************)
\* a request has been handed to the model API by the latest call
Sent == pc # "idle"

Lighter == "gemini-2.5-flash"
Higher  == "gemini-3-pro-preview"

NoToolsSent    == ~request.config.tools.defined
SearchToolSent == request.config.tools.defined /\ request.config.tools.list = <<"googleSearch">>

\* the parts of the current user turn, the last content of the request
CurrentTurn == request.contents[Len(request.contents)]

Marker(name) == [text |-> <<"[File Context: ", name, "]">>]

Payload(att) == [inlineData |-> [mimeType |-> att.mimeType, data |-> att.data]]

(***************************************************************************)
(* C11                                                                     *)
(***************************************************************************)
\* C11: the request of a fast call carries no tools and the lighter model,
\* that of a web call the search tool and the lighter model, that of a deep
\* call the search tool and the higher-capability model; no other pair of
\* model and tools is sent.
C11_ModeMapping ==
  Sent =>
    /\ args.mode = "fast" => request.model = Lighter /\ NoToolsSent
    /\ args.mode = "web"  => request.model = Lighter /\ SearchToolSent
    /\ args.mode = "deep" => request.model = Higher  /\ SearchToolSent
    /\ \/ request.model = Lighter /\ NoToolsSent
       \/ request.model = Lighter /\ SearchToolSent
       \/ request.model = Higher  /\ SearchToolSent

\* a fast request is in flight, without tools
C11_Witness ==
  /\ pc = "awaiting"
  /\ args.mode = "fast"
  /\ request.model = Lighter
  /\ NoToolsSent

(***************************************************************************)
(* C13                                                                     *)
(***************************************************************************)
\* C13: for attachments a1..an and any prompt, the empty one included, the
\* parts of the current user turn are marker(a1.name), payload(a1), ...,
\* marker(an.name), payload(an), and last the prompt text.
C13_CurrentParts ==
  Sent =>
    LET parts == CurrentTurn.parts
        n     == Len(args.attachments)
    IN  /\ CurrentTurn.role = "user"
        /\ Len(parts) = 2 * n + 1
        /\ \A k \in 1..n :
             /\ parts[2 * k - 1] = Marker(args.attachments[k].name)
             /\ parts[2 * k] = Payload(args.attachments[k])
        /\ parts[2 * n + 1] = [text |-> args.currentPrompt]

\* two attachments of the same name and different payloads, sent with an
\* empty prompt
C13_Witness ==
  /\ pc = "awaiting"
  /\ Len(args.attachments) = 2
  /\ args.attachments[1].name = args.attachments[2].name
  /\ args.attachments[1].data # args.attachments[2].data
  /\ args.currentPrompt = <<>>
  /\ Len(CurrentTurn.parts) = 5

(***************************************************************************)
(* C15                                                                     *)
(***************************************************************************)
\* C15: the request holds one content per prior turn, in history order,
\* each with the role of the turn and one text part equal to its text; the
\* attachments, evidence and grounding chunks of prior turns are not sent.
C15_HistoryTextOnly ==
  Sent =>
    /\ Len(request.contents) = Len(args.history) + 1
    /\ \A k \in 1..Len(args.history) :
         request.contents[k] =
           [role |-> args.history[k].role, parts |-> <<[text |-> args.history[k].text]>>]

\* the history holds a user turn with attachments and a model turn with
\* evidence and grounding chunks
C15_Witness ==
  /\ pc = "awaiting"
  /\ Len(args.history) = 2
  /\ args.history[1].role = "user" /\ args.history[1].attachments # <<>>
  /\ args.history[2].role = "model" /\ args.history[2].evidence # <<>>
  /\ args.history[2].groundingChunks # <<>>

(***************************************************************************)
(* C16                                                                     *)
(***************************************************************************)
\* C16: no step of a call, whether it assembles the request, returns a
\* result or rejects, changes the history or the attachment list the caller
\* passed.
C16_InputsUnchanged ==
  [][args'.history = args.history /\ args'.attachments = args.attachments]_vars

\* a call with a history and attachments has returned
C16_Witness ==
  /\ pc = "resolved"
  /\ args.history # <<>>
  /\ args.attachments # <<>>
  /\ result.evidence # <<>>

(***************************************************************************)
(* C17                                                                     *)
(***************************************************************************)
\* C17: when the model API call failed, the call of generateResearchResponse
\* rejected with that very error and returned no result.
C17_ErrorUnchanged ==
  apiError # "none" =>
    /\ pc = "rejected"
    /\ thrown = apiError
    /\ result = NoResult

\* the API call failed for quota and the call rejected
C17_Witness ==
  /\ apiError = "quota"
  /\ pc = "rejected"
  /\ thrown = "quota"

(***************************************************************************)
(* Vocabulary of the conversation properties                               *)
(***************************************************************************)
Blank(text) == \A k \in 1..Len(text) : text[k] = W

\* the submission a submit event would make is empty
EmptySubmission == Blank(rendered.input) /\ rendered.attachments = <<>>

\* a request is handed to the model API in this step
RequestSent == Len(pending') > Len(pending)

\* the call of generateResearchResponse rejected on its own, not for an
\* error of the model API
AssemblerRejected == pc = "rejected" /\ apiError = "none"

Pdf(file) == file.type = "application/pdf"

\* the files of a list that are PDFs and that FileReader can read
Accepted(files) == SelectSeq(files, LAMBDA f : Pdf(f) /\ f.readable)

Names(s) == [k \in 1..Len(s) |-> s[k].name]

Finished(u) == u.i > Len(u.files)

C14_AcceptedInOrder ==
  \A k \in 1..Len(uploads) :
    LET u    == uploads[k]
        done == Accepted(SubSeq(u.files, 1, u.i - 1))
    IN  /\ Names(u.attachments) = Names(done)
        /\ \A n \in 1..Len(u.attachments) : u.attachments[n].mimeType = "application/pdf"

\* an unreadable PDF and an image came first, and the PDF after them is
\* what the invocation returns
C14_Witness ==
  /\ Len(uploads) = 1
  /\ uploads[1].files = <<FileBad, FilePng, FileA>>
  /\ Finished(uploads[1])
  /\ Names(uploads[1].attachments) = <<"a.pdf">>

(***************************************************************************)
(* C18                                                                     *)
(***************************************************************************)
\* C18: the step in which the model API call fails appends one model turn
\* with the apology text, no evidence and no grounding chunks, and leaves
\* no request in flight for that submission; a request is handed to the model
\* API exactly in the steps that append a user turn, one request each.
C18_OneApologyNoRetry ==
  [][/\ (apiError = "none" /\ apiError' # "none") =>
          /\ ui'.messages =
               Append(ui.messages,
                      [role |-> "model", text |-> Apology, attachments |-> <<>>,
                       groundingChunks |-> <<>>, evidence |-> <<>>])
          /\ Len(pending') = Len(pending) - 1
          /\ pc' = "rejected"
     /\ RequestSent <=> UserTurns(ui'.messages) = UserTurns(ui.messages) + 1
     /\ RequestSent => Len(pending') = Len(pending) + 1]_vars

\* the second request of a conversation failed: one apology turn follows
\* each of the two user turns that was not answered
C18_Witness ==
  /\ apiError = "network"
  /\ pending = <<>>
  /\ UserTurns(ui.messages) = 2
  /\ Len(ui.messages) = 5
  /\ ui.messages[5].text = Apology
  /\ ui.messages[5].evidence = <<>>
  /\ ui.messages[5].groundingChunks = <<>>
  /\ ~ui.isLoading

(***************************************************************************)
(* C19                                                                     *)
(***************************************************************************)
\* C19: at most one request is in flight, whatever submit events arrive: a
\* request is sent only when none is in flight.
C19_OneInFlight ==
  /\ Len(pending) <= 1
  /\ pending # <<>> => ui.isLoading /\ pc = "awaiting"

\* a submit event arrived while a request was in flight and an attachment
\* was staged, and it returned at the guard
C19_Witness ==
  /\ Len(pending) = 1
  /\ handled = "returned"
  /\ rendered.attachments # <<>>
  /\ rendered.isLoading

(***************************************************************************)
(* C20                                                                     *)
(***************************************************************************)
\* C20 as stated: a request is assembled only when no processFiles
\* invocation is running.
C20_NoAssemblyWhileEncoding ==
  [][RequestSent => uploads = <<>>]_vars

\* C20, amended: a batch leaves processFiles only when its loop has handled
\* every file, and is then staged whole; a request carries exactly the
\* attachments staged and rendered when it was submitted, and the
\* invocations still running are left as they are.
C20_StagedWhenEncoded ==
  [][/\ Len(uploads') < Len(uploads) =>
          \E k \in 1..Len(uploads) :
            /\ Finished(uploads[k])
            /\ uploads' = SubSeq(uploads, 1, k - 1) \o SubSeq(uploads, k + 1, Len(uploads))
            /\ Names(ui'.attachments) = Names(ui.attachments) \o Names(Accepted(uploads[k].files))
     /\ RequestSent =>
          /\ args'.attachments = rendered.attachments
          /\ uploads' = uploads]_vars

\* a request that carries an attachment is in flight while a file is
\* still being encoded
C20_Witness ==
  /\ Len(pending) = 1
  /\ pending[1].attachments # <<>>
  /\ Len(uploads) = 1
  /\ ~Finished(uploads[1])
  /\ uploads[1].files = <<FileA>>


(***************************************************************************)
(* The turns on the page                                                   *)
(***************************************************************************)
\* the turn the page gets for the call that resolved
ResolvedTurn == aiMsg(result)

\* C21 as stated: for every turn the evidence graph is shown exactly when the
\* turn's evidence is non-empty, the list of grounding-chunk sources is shown
\* only when the evidence is empty and the grounding chunks are not, and the
\* two are never shown together. Violated: a block holding the list [null]
\* gives the turn a non-empty evidence whose graph throws while rendering.
C21_EvidencePrimary ==
  pc = "resolved" =>
    /\ (evidenceGraph(ResolvedTurn) = "shown") <=> (ResolvedTurn.evidence # <<>>)
    /\ (webSources(ResolvedTurn) = "shown") =>
          (ResolvedTurn.evidence = <<>> /\ ResolvedTurn.groundingChunks # <<>>)
    /\ ~(evidenceGraph(ResolvedTurn) = "shown" /\ webSources(ResolvedTurn) = "shown")

\* s is an initial segment of t
IsPrefix(s, t) == Len(s) <= Len(t) /\ SubSeq(t, 1, Len(s)) = s

\* C22: a turn is immutable once created: whatever step the component takes
\* (submission, response, failure, upload, removal, mode change), every turn
\* of the conversation stays at its position with its content, and the
\* conversation only grows at its end.
C22_TurnsImmutable == [][IsPrefix(ui.messages, ui'.messages)]_vars

C22_Witness ==
  /\ Len(ui.messages) >= 4
  /\ ui.messages[2].attachments # <<>>
  /\ ui.modelMode = "deep"
  /\ ui.attachments # <<>>

(***************************************************************************)
(* The system instruction                                                  *)
(***************************************************************************)
Instruction == request.config.systemInstruction

Says(instruction, rule) == \E i \in 1..Len(instruction) : instruction[i] = rule

EvidenceFields == {"claim", "sourceType", "sourceName", "sourceReference"}

\* the last rule about the shape of the answer is the evidence graph rule
MandatesBlock(instruction) ==
  /\ Says(instruction, EvidenceGraphRule)
  /\ \A f \in EvidenceFields : Says(instruction, FieldRule(f))

\* the instruction each argument tuple of the study is sent with
InstructionOf == [a \in CallArgs |-> generateContentArg(a).config.systemInstruction]

\* C23: the system instruction is a function of the mode only: in the fast
\* mode it permits answers from general knowledge, asks for sources nowhere
\* as an obligation and mandates no block; in the web and deep modes it
\* mandates the trailing json evidence block with the fields claim,
\* sourceType, sourceName and sourceReference; two calls in the same mode are
\* sent the same instruction whatever their prompt, history and attachments.
C23_InstructionByMode ==
  Sent =>
    /\ args.mode = "fast" =>
          /\ Says(Instruction, GeneralKnowledgeRule)
          /\ ~Says(Instruction, NoUnsourcedClaimsRule)
          /\ ~Says(Instruction, EvidenceGraphRule)
          /\ \A f \in EvidenceFields : ~Says(Instruction, FieldRule(f))
    /\ args.mode \in {"web", "deep"} =>
          /\ MandatesBlock(Instruction)
          /\ Says(Instruction, NoUnsourcedClaimsRule)
          /\ ~Says(Instruction, GeneralKnowledgeRule)
    /\ \A a \in CallArgs : a.mode = args.mode => InstructionOf[a] = Instruction

C23_Witness ==
  /\ Sent
  /\ args.mode = "fast"
  /\ Len(args.history) = 2
  /\ args.attachments # <<>>

(***************************************************************************)
(* The elements of the evidence                                            *)
(***************************************************************************)
\* an element with the four fields of an evidence item
EvidenceShaped(v) == v = JObject(O1)

\* C24: when the block parses to a list, the evidence has as many elements as
\* the list, each element is the parsed element at the same position whether
\* or not it has the shape of an evidence item (an object without the fields,
\* a number, null, a string, a list), and the block is stripped from the text.
C24_ElementsPassThrough ==
  (Resolved /\ FirstIsList) =>
    /\ Len(result.evidence) = Len(FirstParsed.val.items)
    /\ \A i \in 1..Len(FirstParsed.val.items) :
          result.evidence[i] = FirstParsed.val.items[i]
    /\ result.text = Strip(Before(raw, FirstBlock) \o After(raw, FirstBlock))

\* a list of a malformed object and a null went through, and the text lost
\* the block
C24_Witness ==
  /\ Resolved /\ FirstIsList
  /\ result.evidence = <<JObject(O2), JNull>>
  /\ \A i \in 1..2 : ~EvidenceShaped(result.evidence[i])
  /\ Len(result.text) < Len(raw)
  /\ result.text # <<>>

(***************************************************************************)
(* The shape of the conversation                                           *)
(***************************************************************************)
InFlight == pending # <<>>

Settled == Len(pending') < Len(pending)

Last(s) == s[Len(s)]

\* the welcome turn, then user and model turns in alternation
Alternating(messages) ==
  /\ messages # <<>>
  /\ messages[1] = Welcome
  /\ \A i \in 2..Len(messages) :
        messages[i].role = (IF i % 2 = 0 THEN "user" ELSE "model")

\* C25: every accepted submission appends the user turn at once and exactly
\* one model turn (the response or the apology) when the request settles, and
\* no other step appends a turn; so with no request in flight the
\* conversation is the welcome turn followed by user/model pairs, and with a
\* request in flight it ends with the user turn of that request.
C25_TwoTurnsPerSubmission ==
  /\ [](/\ Alternating(ui.messages)
        /\ (~InFlight => Len(ui.messages) % 2 = 1)
        /\ (InFlight =>
              /\ Last(ui.messages).role = "user"
              /\ Last(ui.messages).text = Last(pending).currentPrompt
              /\ Last(ui.messages).attachments = Last(pending).attachments))
  /\ [][/\ (RequestSent =>
             /\ Len(ui'.messages) = Len(ui.messages) + 1
             /\ Last(ui'.messages).role = "user")
         /\ (Settled =>
             /\ Len(ui'.messages) = Len(ui.messages) + 1
             /\ Last(ui'.messages).role = "model"
             /\ Last(ui'.messages).text \in {Apology, result'.text})
         /\ ((~RequestSent /\ ~Settled) => ui'.messages = ui.messages)]_vars

\* two submissions settled, the first with the apology, the second with a
\* response that carried evidence
C25_Witness ==
  /\ ~InFlight
  /\ Len(ui.messages) = 5
  /\ ui.messages[3].text = Apology
  /\ ui.messages[5].evidence # <<>>
  /\ ui.messages[4].attachments # <<>>

(***************************************************************************)
(* Loading                                                                 *)
(***************************************************************************)
\* C26: isLoading is true exactly while a request is in flight; when the
\* calls in flight settle, isLoading returns to false, the page shows it,
\* and from then on a submit event with a non-empty input does not return
\* at the guard.
C26_LoadingEnds ==
  /\ [](ui.isLoading <=> InFlight)
  /\ (ui.isLoading ~> (~ui.isLoading /\ ~rendered.isLoading))
  /\ [][(handled' # handled /\ ~rendered.isLoading /\ ~Blank(rendered.input))
          => (handled' = "admitted" /\ RequestSent)]_vars

\* a second submission was admitted after the first one settled
C26_Witness ==
  /\ InFlight /\ ui.isLoading
  /\ Len(ui.messages) = 4
  /\ handled = "admitted"
  /\ ~Blank(Last(ui.messages).text)

(***************************************************************************)
(* What a request is made of                                               *)
(***************************************************************************)
\* a batch of files left processFiles in this step
UploadCompleted == Len(uploads') < Len(uploads)

\* the attachments a step staged
NewlyStaged == SubSeq(ui'.attachments, Len(ui.attachments) + 1, Len(ui'.attachments))

\* C27: a request is made of the text, the attachments and the mode the page
\* showed when it was submitted, and so is the user turn; while it is in
\* flight no step (mode change, typing, upload, removal) changes the request
\* or the conversation; a batch whose upload completes meanwhile is staged
\* whole, behind what is staged, and the staging area loses nothing but by
\* the remove button.
C27_CapturedAtSubmission ==
  [][/\ (RequestSent =>
          /\ args'.currentPrompt = rendered.input
          /\ args'.attachments = rendered.attachments
          /\ args'.mode = rendered.modelMode
          /\ Last(pending') = args'
          /\ request'.model = modelName(rendered.modelMode)
          /\ Last(ui'.messages).text = rendered.input
          /\ Last(ui'.messages).attachments = rendered.attachments)
     /\ ((InFlight /\ ~Settled) =>
          /\ pending' = pending
          /\ args' = args
          /\ request' = request
          /\ ui'.messages = ui.messages
          /\ \/ IsPrefix(ui.attachments, ui'.attachments)
             \/ \E index \in 1..Len(rendered.attachments) :
                  ui'.attachments = Remove(ui.attachments, index))
     /\ ((InFlight /\ UploadCompleted) =>
          /\ IsPrefix(ui.attachments, ui'.attachments)
          /\ \E k \in 1..Len(uploads) :
               Names(NewlyStaged) = Names(Accepted(uploads[k].files)))]_vars

\* while a request without attachments is in flight, a file has been staged
\* and the mode is no longer the mode of the request
C27_Witness ==
  /\ Len(pending) = 1
  /\ pending[1].attachments = <<>>
  /\ ui.attachments # <<>>
  /\ ui.modelMode # pending[1].mode
  /\ request.model = modelName(pending[1].mode)
  /\ uploads = <<>>

(***************************************************************************)
(* The history of a request                                                *)
(***************************************************************************)
\* C28: the history sent with a request is the conversation as it was before
\* the user turn of the request was appended, welcome turn and apology turns
\* included; the outbound contents hold one content per turn of that
\* history, in order, and then the current turn, once and last: |history| + 1
\* contents, as many as the conversation has turns after the append.
C28_HistoryBeforeAppend ==
  [][RequestSent =>
       /\ args'.history = ui.messages
       /\ Len(ui'.messages) = Len(ui.messages) + 1
       /\ Len(request'.contents) = Len(args'.history) + 1
       /\ Len(request'.contents) = Len(ui'.messages)
       /\ \A k \in 1..Len(ui.messages) :
             /\ request'.contents[k].role = ui.messages[k].role
             /\ request'.contents[k].parts = <<[text |-> ui.messages[k].text]>>
       /\ Last(request'.contents).role = "user"
       /\ Last(Last(request'.contents).parts) = [text |-> Last(ui'.messages).text]]_vars

\* the second request is in flight; its history is the welcome turn, the
\* first user turn and the apology that answered it
C28_Witness ==
  /\ Len(pending) = 1
  /\ Len(pending[1].history) = 3
  /\ pending[1].history[1] = Welcome
  /\ pending[1].history[3].text = Apology
  /\ Len(request.contents) = 4
  /\ Len(ui.messages) = 4

(***************************************************************************)
(* What a submit event changes                                             *)
(***************************************************************************)
\* a submit event returned at the guard in this step
Returned == handled' = "returned" /\ handled # "returned"

NoText == pc = "resolved" /\ response.arrived /\ (~response.hasText \/ response.text = <<>>)

\* C30: when the call succeeds and the response text is empty or absent, the
\* result text is the placeholder and the evidence is empty; the result text
\* is the empty string only when a block was stripped and the response held
\* nothing else than that block (and whitespace around it, which the trim
\* removes).
C30_Placeholder ==
  /\ NoText => (result.text = <<PH>> /\ result.evidence = <<>>)
  /\ (pc = "resolved" /\ result.text = <<>>) =>
        /\ Resolved /\ raw # <<>>
        /\ FirstIsList
        /\ Blank(Before(raw, FirstBlock) \o After(raw, FirstBlock))

\* a response without a text, with grounding chunks, gave the placeholder
C30_Witness ==
  /\ NoText
  /\ ~response.hasText
  /\ result.text = <<PH>>
  /\ result.groundingChunks # <<>>

====
